---- MODULE Spec2Model ----
(***************************************************************************)
(* Model of mecab-spawn (src/mecab-spawn.js): the MeCab class with its     *)
(* task queue, the read task's incremental framing of the subprocess       *)
(* output, the request sizing, and the process event handlers.             *)
(*                                                                         *)
(* Conventions.  Buffers are sequences of byte values; offsets inside the  *)
(* operators are 0-based as in the source.  A JavaScript string is a       *)
(* sequence of one-character strings.  A value that may be null is a       *)
(* sequence of length 0 (null) or 1 (the value).                           *)
(***************************************************************************)
EXTENDS Integers, Sequences, FiniteSets, TLC

\* ------------------------------------------------------------------ bounds
MaxOps == 3
MaxPieces == 4
MaxExpect == 2
MaxLen == 5
MaxCalls == 2

\* ------------------------------------------------------- program constants
CR == 13
LF == 10
CRLF == <<13, 10>>
EOL == <<"\n">>

Null == <<>>
Some(x) == <<x>>

\* ------------------------------------------------------ Buffer primitives
\* Buffer.prototype.slice(start, end) / String.prototype.substring
Slice(buf, from, to) == SubSeq(buf, from + 1, to)

\* Buffer.prototype.indexOf(value, byteOffset) / String.prototype.indexOf:
\* the least index >= from at which pat occurs, or -1.
IndexOf(buf, pat, from) ==
  LET hits == {i \in from .. (Len(buf) - Len(pat)) :
                 SubSeq(buf, i + 1, i + Len(pat)) = pat}
  IN IF hits = {} THEN -1
     ELSE CHOOSE i \in hits : \A j \in hits : i <= j

\* Buffer.from(string) for the characters of the model.
CharByte(c) ==
  CASE c = "\t" -> 9
    [] c = "\n" -> LF
    [] c = "\r" -> CR
    [] c = "," -> 44
    [] c = "E" -> 69
    [] c = "O" -> 79
    [] c = "S" -> 83
    [] c = "a" -> 97
    [] c = "b" -> 98

BufferFrom(str) == [i \in 1 .. Len(str) |-> CharByte(str[i])]

\* buffer.toString('utf8', start, end) for one-byte code points.
ByteChar(b) ==
  CASE b = 9 -> "\t"
    [] b = LF -> "\n"
    [] b = CR -> "\r"
    [] b = 44 -> ","
    [] b = 69 -> "E"
    [] b = 79 -> "O"
    [] b = 83 -> "S"
    [] b = 97 -> "a"
    [] b = 98 -> "b"

ToStringUtf8(buf, from, to) ==
  [i \in 1 .. (to - from) |-> ByteChar(buf[from + i])]

\* ------------------------------------------------------ JavaScript values
\* A value held in a result list: a string or an array of strings.
JsStr(text) == [t |-> "str", s |-> text, a |-> <<>>]
JsArr(items) == [t |-> "arr", s |-> <<>>, a |-> items]

\* What a promise is settled with: a message or a result list.
Msg(text) == [kind |-> "msg", msg |-> text, list |-> <<>>]
List(items) == [kind |-> "list", msg |-> <<>>, list |-> items]
NoValue == [kind |-> "none", msg |-> <<>>, list |-> <<>>]

\* --------------------------------------------------------- line parser
\* createLineParser(/[\t,]/): line => line.split(sep)
IsSep(c) == c = "\t" \/ c = ","

RECURSIVE SplitFrom(_, _, _)
SplitFrom(line, i, field) ==
  IF i > Len(line) THEN <<field>>
  ELSE IF IsSep(line[i]) THEN <<field>> \o SplitFrom(line, i + 1, <<>>)
  ELSE SplitFrom(line, i + 1, Append(field, line[i]))

lineParser(line) == JsArr(SplitFrom(line, 1, <<>>))

\* ------------------------------------------------------- MeCabReadTask
\* _parseSentence: the records of the lines of sentence that end with EOL.
RECURSIVE ParseFrom(_, _)
ParseFrom(sentence, offset) ==
  IF offset < Len(sentence)
  THEN LET index == IndexOf(sentence, EOL, offset)
       IN IF index > -1
          THEN <<lineParser(Slice(sentence, offset, index))>>
                 \o ParseFrom(sentence, index + Len(EOL))
          ELSE <<>>
  ELSE <<>>

_parseSentence(sentence) == ParseFrom(sentence, 0)

\* Mutant of _concatBuffer: the retained tail is forgotten.
ConcatBufferDropsTail(lastBuffer, data) == data

\* _concatBuffer: the retained tail, if any, followed by the new chunk.
_concatBuffer(lastBuffer, data) ==
  IF lastBuffer = Null THEN data ELSE lastBuffer[1] \o data

\* Mutant of ReadLoop: the marker is pushed before the count is compared
\* with the expected count.
RECURSIVE ReadLoopMarkerFirst(_, _, _)
ReadLoopMarkerFirst(task, buffer, offset) ==
  IF offset < Len(buffer)
  THEN LET index == IndexOf(buffer, task._eosSample, offset)
       IN IF index = -1
          THEN [task |-> [task EXCEPT !._lastBuffer = Some(Slice(buffer, offset, Len(buffer)))],
                done |-> FALSE, used |-> offset]
          ELSE LET sentence == ToStringUtf8(buffer, offset, index)
                   parsed == IF sentence # <<>>
                             THEN task._result \o _parseSentence(sentence)
                             ELSE task._result
                   count == task._eosCount + 1
                   pushed == [task EXCEPT !._result = Append(parsed, task._eosObject),
                                          !._eosCount = count]
               IN IF count = task._maxEos
                  THEN [task |-> pushed, done |-> TRUE,
                        used |-> index + Len(task._eosSample)]
                  ELSE ReadLoopMarkerFirst(pushed, buffer, index + Len(task._eosSample))
  ELSE [task |-> task, done |-> FALSE, used |-> offset]

\* The body of readData's while loop, from the given offset on.  The task
\* record carries _result, _lastBuffer, _eosCount; done is readData's
\* return value, and used the number of bytes of buffer the loop went
\* past (on completion, up to the end of the completing sentinel).
RECURSIVE ReadLoop(_, _, _)
ReadLoop(task, buffer, offset) ==
  IF offset < Len(buffer)
  THEN LET index == IndexOf(buffer, task._eosSample, offset)
       IN IF index = -1
          THEN [task |-> [task EXCEPT !._lastBuffer = Some(Slice(buffer, offset, Len(buffer)))],
                done |-> FALSE, used |-> offset]
          ELSE LET sentence == ToStringUtf8(buffer, offset, index)
                   parsed == IF sentence # <<>>
                             THEN task._result \o _parseSentence(sentence)
                             ELSE task._result
                   count == task._eosCount + 1
               IN IF count = task._maxEos
                  THEN [task |-> [task EXCEPT !._result = parsed, !._eosCount = count],
                        done |-> TRUE, used |-> index + Len(task._eosSample)]
                  ELSE ReadLoop([task EXCEPT !._result = Append(parsed, task._eosObject),
                                             !._eosCount = count],
                                buffer, index + Len(task._eosSample))
  ELSE [task |-> task, done |-> FALSE, used |-> offset]

readData(task, data) ==
  ReadLoop([task EXCEPT !._lastBuffer = Null],
           _concatBuffer(task._lastBuffer, data), 0)

\* ------------------------------------------------------------ MeCab
\* Mutant of DetectLineBreak: a carriage return is taken as the line
\* break whatever follows it.
RECURSIVE DetectLineBreakNoPair(_, _)
DetectLineBreakNoPair(buffer, i) ==
  IF i < Len(buffer)
  THEN LET byte == buffer[i + 1]
       IN IF byte = LF
          THEN [lb |-> <<LF>>, offset |-> i, count |-> 1]
          ELSE IF byte = CR
          THEN [lb |-> <<CR>>, offset |-> i, count |-> 1]
          ELSE DetectLineBreakNoPair(buffer, i + 1)
  ELSE [lb |-> <<>>, offset |-> 0, count |-> 0]

\* _countSentences, first loop: the line break convention of the first
\* terminator in buffer, and the offset the loop stops at.
RECURSIVE DetectLineBreak(_, _)
DetectLineBreak(buffer, i) ==
  IF i < Len(buffer)
  THEN LET byte == buffer[i + 1]
       IN IF byte = LF
          THEN [lb |-> <<LF>>, offset |-> i, count |-> 1]
          ELSE IF byte = CR
          THEN IF i + 1 < Len(buffer) /\ buffer[i + 2] = LF
               THEN [lb |-> CRLF, offset |-> i + 1, count |-> 1]
               ELSE [lb |-> <<CR>>, offset |-> i, count |-> 1]
          ELSE DetectLineBreak(buffer, i + 1)
  ELSE [lb |-> <<>>, offset |-> 0, count |-> 0]

\* _countSentences, second loop: the occurrences of lb from offset on.
RECURSIVE CountLineBreaks(_, _, _, _)
CountLineBreaks(buffer, lb, offset, count) ==
  IF offset < Len(buffer)
  THEN LET index == IndexOf(buffer, lb, offset)
       IN IF index > -1
          THEN CountLineBreaks(buffer, lb, index + Len(lb), count + 1)
          ELSE count
  ELSE count

\* Mutant of _countSentences: the first line break is not counted.
CountSentencesSkipsFirst(buffer) ==
  LET d == DetectLineBreak(buffer, 0)
  IN IF d.count = 0 THEN 0
     ELSE CountLineBreaks(buffer, d.lb, d.offset + 1, 0)

_countSentences(buffer) ==
  LET d == DetectLineBreak(buffer, 0)
  IN IF d.count = 0 THEN 0
     ELSE CountLineBreaks(buffer, d.lb, d.offset + 1, d.count)

\* ------------------------------------------------------------- state
VARIABLES
  _tasks,      \* MeCab._tasks: the queue of task objects
  _eosSample,  \* MeCab._eosSample
  _eosObject,  \* MeCab._eosObject
  ops,         \* per submitted call, in submission order: its promise
  log,         \* the calls, writes, signals and settlements, in the order
               \* they were made
  stdout,      \* the child's answer to what it was written, not yet
               \* delivered as 'data'
  proc,        \* "running" | "closed", and whether it was sent a signal
  fault,       \* the 'data' handler has thrown a TypeError
  pipe,        \* byte counts of the child's output: written, delivered
  rd           \* the single read task of ReadSpec and its input

vars == <<_tasks, _eosSample, _eosObject, ops, log, stdout, proc, fault, pipe, rd>>

\* The text of the messages.
Killed == Msg(<<"MeCab process is killed.">>)
CodeText(code) == IF code = 0 THEN "0" ELSE "1"
Crushed(code) == Msg(<<"MeCab process crushed. code:", CodeText(code)>>)
Interrupted == Msg(<<"The process was interrupted immediately.">>)
SpawnError == Msg(<<"Error: spawn">>)
PipeError == Msg(<<"Error: write EPIPE">>)

\* new MeCabReadTask(mecab, lineBreaks)
MeCabReadTask(id, lineBreaks, sample, object) ==
  [id |-> id, type |-> "read", _result |-> <<>>, _lastBuffer |-> Null,
   _maxEos |-> lineBreaks, _eosCount |-> 0, _eosSample |-> sample,
   _eosObject |-> object, _signal |-> "", fedFrom |-> Null]

\* new MeCabKillTask(mecab, signal)
MeCabKillTask(id, signal) ==
  [id |-> id, type |-> "kill", _result |-> <<>>, _lastBuffer |-> Null,
   _maxEos |-> 0, _eosCount |-> 0, _eosSample |-> <<>>,
   _eosObject |-> JsStr(<<>>), _signal |-> signal, fedFrom |-> Null]

\* A new promise, pending.  Beside it, what the call was given, where in
\* the child's output its answer lies (answer), which bytes of the output
\* its task went through (fed), whether they were exactly that answer
\* (intact), the sentinel and the EOS object configured when the call was
\* made (cfg), and whether either was set anew while the task was in the
\* queue (reset).
Deferred(type, payload, force, answer) ==
  [type |-> type, payload |-> payload, force |-> force,
   state |-> "pending", value |-> NoValue, answer |-> answer, intact |-> FALSE,
   fed |-> [from |-> 0, to |-> 0],
   cfg |-> [sample |-> _eosSample, object |-> _eosObject], reset |-> FALSE]

\* The part of the state the handlers update step by step: st.ops, st.log,
\* st.proc.
\* DeferredTask.resolve / reject: a promise is settled once; later calls
\* have no effect.
Settle(st, id, state, value) ==
  IF st.ops[id].state = "pending"
  THEN [st EXCEPT !.ops[id].state = state, !.ops[id].value = value,
                  !.log = Append(@, [ev |-> state, id |-> id])]
  ELSE st

resolve(st, id, value) == Settle(st, id, "resolved", value)
reject(st, id, reason) == Settle(st, id, "rejected", reason)

\* Mutant of start: a kill task resolves its future as it sends the signal.
StartResolvesKill(st, task) ==
  IF task.type = "kill"
  THEN resolve([st EXCEPT !.log = Append(@, [ev |-> "signal", id |-> task.id]),
                          !.proc.signalled = TRUE],
               task.id, Killed)
  ELSE st

\* task.start(): nothing for a read task; process.kill(signal) for a kill
\* task.
start(st, task) ==
  IF task.type = "kill"
  THEN [st EXCEPT !.log = Append(@, [ev |-> "signal", id |-> task.id]),
                  !.proc.signalled = TRUE]
  ELSE st

\* Mutant of _addTask: the task is started wherever it is in the queue.
AddTaskAlwaysStarts(st, tasks, task) ==
  [tasks |-> Append(tasks, task), st |-> start(st, task)]

\* _addTask: push, and start the task if it is alone in the queue.
\* Returns the new queue and store.
_addTask(st, tasks, task) ==
  [tasks |-> Append(tasks, task),
   st |-> IF Len(tasks) + 1 = 1 THEN start(st, task) ELSE st]

\* Mutant of RejectEach: the tasks are rejected from the last to the first.
RECURSIVE RejectEachBackwards(_, _, _, _)
RejectEachBackwards(st, tasks, i, reason) ==
  IF i > Len(tasks) THEN st
  ELSE RejectEachBackwards(reject(st, tasks[Len(tasks) + 1 - i].id, reason),
                           tasks, i + 1, reason)

\* Mutant of RejectEach: only the head of the queue is rejected.
RejectEachHeadOnly(st, tasks, i, reason) ==
  IF tasks = <<>> THEN st ELSE reject(st, tasks[1].id, reason)

\* _rejectAllTasks: reject every task, in queue order.
RECURSIVE RejectEach(_, _, _, _)
RejectEach(st, tasks, i, reason) ==
  IF i > Len(tasks) THEN st
  ELSE RejectEach(reject(st, tasks[i].id, reason), tasks, i + 1, reason)

\* Mutant of _rejectAllTasks: the queue is emptied, no task is rejected.
RejectAllTasksOnlyClears(st, tasks, reason) == [tasks |-> <<>>, st |-> st]

_rejectAllTasks(st, tasks, reason) ==
  [tasks |-> <<>>, st |-> RejectEach(st, tasks, 1, reason)]

\* Mutant of Truthy: only null is falsy.
TruthyUnlessNull(code) == code # Null

\* if (code): null and 0 are falsy.
Truthy(code) == code # Null /\ code[1] # 0

\* Mutant of CloseEach: a kill task is resolved whatever the exit code.
RECURSIVE CloseEachResolvesKills(_, _, _, _)
CloseEachResolvesKills(st, tasks, i, code) ==
  IF i > Len(tasks) THEN st
  ELSE LET task == tasks[i]
           next == IF task.type = "kill" THEN resolve(st, task.id, Killed)
                   ELSE IF Truthy(code)
                   THEN reject(st, task.id, Crushed(code[1]))
                   ELSE reject(st, task.id, Killed)
       IN CloseEachResolvesKills(next, tasks, i + 1, code)

\* Mutant of CloseEach: on a non-zero exit code the kill tasks are
\* resolved and only the read tasks are rejected.
RECURSIVE CloseEachCrashSparesKills(_, _, _, _)
CloseEachCrashSparesKills(st, tasks, i, code) ==
  IF i > Len(tasks) THEN st
  ELSE LET task == tasks[i]
           next == IF task.type = "kill" THEN resolve(st, task.id, Killed)
                   ELSE IF Truthy(code)
                   THEN reject(st, task.id, Crushed(code[1]))
                   ELSE reject(st, task.id, Killed)
       IN CloseEachCrashSparesKills(next, tasks, i + 1, code)

\* The 'close' handler's forEach.
RECURSIVE CloseEach(_, _, _, _)
CloseEach(st, tasks, i, code) ==
  IF i > Len(tasks) THEN st
  ELSE LET task == tasks[i]
           next == IF Truthy(code) THEN reject(st, task.id, Crushed(code[1]))
                   ELSE IF task.type = "read" THEN reject(st, task.id, Killed)
                   ELSE resolve(st, task.id, Killed)
       IN CloseEach(next, tasks, i + 1, code)

Store == [ops |-> ops, log |-> log, proc |-> proc]

Commit(st) ==
  /\ ops' = st.ops
  /\ log' = st.log
  /\ proc' = st.proc

\* setEOSSample(sample) for a string: the first "\\n" becomes EOL.
setEOSSample(sample) ==
  LET hits == {i \in 1 .. Len(sample) - 1 : sample[i] = "\\" /\ sample[i + 1] = "n"}
  IN IF hits = {} THEN BufferFrom(sample)
     ELSE LET i == CHOOSE i \in hits : \A j \in hits : i <= j
          IN BufferFrom(SubSeq(sample, 1, i - 1) \o EOL
                          \o SubSeq(sample, i + 2, Len(sample)))

\* ------------------------------------------------- the child process
\* The mecab command: it reads its input line by line and answers each
\* line with one line per morpheme followed by its eos format.
MecabEos == <<69, 79, 83, 10>>
MecabMorphemes(line) == IF line = <<>> THEN <<>> ELSE line \o <<LF>>

RECURSIVE MecabAnswer(_)
MecabAnswer(input) ==
  LET index == IndexOf(input, <<LF>>, 0)
  IN IF index = -1 THEN <<>>
     ELSE MecabMorphemes(Slice(input, 0, index)) \o MecabEos
            \o MecabAnswer(Slice(input, index + 1, Len(input)))

\* The texts submitted to analyze().
Payloads == {<<97>>, <<98, 10, 98>>}
ExitCodes == {Null, Some(0), Some(1)}

NoRead == [task |-> MeCabKillTask(0, ""), input |-> <<>>, pos |-> 0,
           done |-> FALSE, end |-> 0, cut |-> FALSE]

Init ==
  /\ _tasks = <<>>
  /\ _eosSample = setEOSSample(<<"E", "O", "S", "\\", "n">>)
  /\ _eosObject = JsStr(<<"E", "O", "S">>)
  /\ ops = <<>>
  /\ log = <<>>
  /\ stdout = <<>>
  /\ proc = [state |-> "running", signalled |-> FALSE, code |-> Null]
  /\ fault = FALSE
  /\ pipe = [written |-> 0, delivered |-> 0]
  /\ rd = NoRead

\* analyze(obj): size the request, queue a read task, write the payload
\* and EOL to stdin.  A child that is alive and was sent no signal will
\* answer what it is written.
Analyze(payload) ==
  /\ Len(ops) < MaxOps
  /\ LET id == Len(ops) + 1
         buffer == payload
         lineBreaks == _countSentences(buffer)
         task == MeCabReadTask(id, lineBreaks + 1, _eosSample, _eosObject)
         answer == IF proc.state = "running" /\ ~proc.signalled
                   THEN MecabAnswer(buffer \o BufferFrom(EOL))
                   ELSE <<>>
         span == [from |-> pipe.written, to |-> pipe.written + Len(answer)]
         st0 == [Store EXCEPT !.ops = Append(@, Deferred("read", payload, FALSE, span)),
                              !.log = Append(@, [ev |-> "call", id |-> id])]
         added == _addTask(st0, _tasks, task)
         st1 == [added.st EXCEPT !.log = Append(@, [ev |-> "write", id |-> id])]
     IN /\ _tasks' = added.tasks
        /\ stdout' = stdout \o answer
        /\ pipe' = [pipe EXCEPT !.written = span.to]
        /\ Commit(st1)
  /\ UNCHANGED <<_eosSample, _eosObject, fault, rd>>

\* kill(optForce, optSignal)
Kill(optForce) ==
  /\ Len(ops) < MaxOps
  /\ LET id == Len(ops) + 1
         st0 == [Store EXCEPT !.ops = Append(@, Deferred("kill", <<>>, optForce,
                                                   [from |-> pipe.written, to |-> pipe.written])),
                              !.log = Append(@, [ev |-> "call", id |-> id])]
         cleared == IF optForce
                    THEN _rejectAllTasks(st0, _tasks, Interrupted)
                    ELSE [tasks |-> _tasks, st |-> st0]
         added == _addTask(cleared.st, cleared.tasks, MeCabKillTask(id, "SIGTERM"))
     IN /\ _tasks' = added.tasks
        /\ Commit(added.st)
  /\ UNCHANGED <<_eosSample, _eosObject, stdout, fault, pipe, rd>>

\* stdout 'data' handler, for a chunk of k bytes.
Data(k) ==
  /\ proc.state = "running"
  /\ k \in 1 .. Len(stdout)
  /\ LET data == SubSeq(stdout, 1, k)
     IN /\ stdout' = SubSeq(stdout, k + 1, Len(stdout))
        /\ pipe' = [pipe EXCEPT !.delivered = @ + k]
        /\ IF _tasks = <<>> \/ _tasks[1].type # "read"
           THEN \* task.readData is not a function
                /\ fault' = TRUE
                /\ UNCHANGED <<_tasks, ops, log, proc>>
           ELSE LET head == _tasks[1]
                    held == IF head._lastBuffer = Null THEN 0
                            ELSE Len(head._lastBuffer[1])
                    task == IF head.fedFrom = Null
                            THEN [head EXCEPT !.fedFrom = Some(pipe.delivered)]
                            ELSE head
                    r == readData(task, data)
                    fedTo == pipe.delivered - held + r.used
                    st0 == IF r.done
                           THEN [Store EXCEPT
                                   !.ops[task.id].fed =
                                     [from |-> task.fedFrom[1], to |-> fedTo],
                                   !.ops[task.id].intact =
                                   /\ task.fedFrom[1] = ops[task.id].answer.from
                                   /\ fedTo = ops[task.id].answer.to]
                           ELSE Store
                IN IF r.done
                   THEN LET st1 == resolve(st0, task.id, List(r.task._result))
                            rest == Tail(_tasks)
                        IN /\ _tasks' = rest
                           /\ Commit(IF Len(rest) > 0 THEN start(st1, rest[1]) ELSE st1)
                           /\ fault' = fault
                   ELSE /\ _tasks' = [_tasks EXCEPT ![1] = r.task]
                        /\ Commit(st0)
                        /\ fault' = fault
  /\ UNCHANGED <<_eosSample, _eosObject, rd>>

\* 'close' handler: the child has exited and its streams have ended; what
\* it had not answered by then it never writes.
Close(code) ==
  /\ proc.state = "running"
  /\ stdout' = <<>>
  /\ Commit(CloseEach([Store EXCEPT !.proc.state = "closed", !.proc.code = code],
                      _tasks, 1, code))
  /\ UNCHANGED <<_tasks, _eosSample, _eosObject, fault, pipe, rd>>

\* The error values the child process object emits with 'error'.
Errors == {SpawnError, PipeError}

\* Mutant of Error: the handler rejects the tasks and keeps them in the
\* queue, as the 'close' handler does.
ErrorKeepsQueue(error) ==
  /\ Commit(RejectEach(Store, _tasks, 1, error))
  /\ UNCHANGED <<_tasks, _eosSample, _eosObject, stdout, fault, pipe, rd>>

\* 'error' handler
Error(error) ==
  /\ LET cleared == _rejectAllTasks(Store, _tasks, error)
     IN /\ _tasks' = cleared.tasks
        /\ Commit(cleared.st)
  /\ UNCHANGED <<_eosSample, _eosObject, stdout, fault, pipe, rd>>

Next ==
  \/ \E payload \in Payloads : Analyze(payload)
  \/ \E optForce \in BOOLEAN : Kill(optForce)
  \/ \E k \in 1 .. Len(stdout) : Data(k)
  \/ \E code \in ExitCodes : Close(code)
  \/ \E error \in Errors : Error(error)

Spec == Init /\ [][Next]_vars

\* ------------------------------------------ setting the EOS anew
\* The eos formats given to setEOSSample and the objects given to
\* setEOSObject.
Samples == {<<"E", "O", "S", "\\", "n">>, <<"\\", "n">>}
Objects == {JsStr(<<"E", "O", "S">>), JsArr(<<(<<"E", "O", "S">>)>>)}

\* The promises, with those of the tasks in the queue marked when the
\* sentinel or the EOS object changes.
Marked(changed) ==
  [id \in DOMAIN ops |->
     IF changed /\ id \in {_tasks[i].id : i \in 1 .. Len(_tasks)}
     THEN [ops[id] EXCEPT !.reset = TRUE] ELSE ops[id]]

\* mecab.setEOSSample(sample)
SetEOSSample(sample) ==
  /\ _eosSample' = setEOSSample(sample)
  /\ ops' = Marked(_eosSample' # _eosSample)
  /\ UNCHANGED <<_tasks, _eosObject, log, stdout, proc, fault, pipe, rd>>

\* Mutant of SetEOSObject: the object is given to the tasks of the queue
\* as well.
SetEOSObjectOfTasks(obj) ==
  /\ _eosObject' = obj
  /\ _tasks' = [i \in 1 .. Len(_tasks) |->
                  IF _tasks[i].type = "read"
                  THEN [_tasks[i] EXCEPT !._eosObject = obj] ELSE _tasks[i]]
  /\ ops' = Marked(_eosObject' # _eosObject)
  /\ UNCHANGED <<_eosSample, log, stdout, proc, fault, pipe, rd>>

\* mecab.setEOSObject(obj)
SetEOSObject(obj) ==
  /\ _eosObject' = obj
  /\ ops' = Marked(_eosObject' # _eosObject)
  /\ UNCHANGED <<_tasks, _eosSample, log, stdout, proc, fault, pipe, rd>>

\* analyze() calls, their output delivered in any chunks, and the two
\* setters called at any moment in between.
ConfigNext ==
  \/ \E payload \in Payloads : Len(ops) < MaxCalls /\ Analyze(payload)
  \/ \E k \in 1 .. Len(stdout) : Data(k)
  \/ \E sample \in Samples : SetEOSSample(sample)
  \/ \E obj \in Objects : SetEOSObject(obj)

ConfigSpec == Init /\ [][ConfigNext]_vars

\* The scheduling the runtime provides: output the child has written is
\* delivered as 'data' events while the process runs, and a process that
\* was sent the signal exits, which fires 'close'. Nothing makes the child
\* exit by itself, emit 'error', or makes the caller call again.
FairSpec ==
  /\ Spec
  /\ WF_vars(\E k \in 1 .. Len(stdout) : Data(k))
  /\ WF_vars(\E code \in ExitCodes : proc.signalled /\ Close(code))

\* ------------------------------------------------- one read task alone
\* A read task of a MeCab in its initial configuration, given an output
\* byte string chunk by chunk.  rd.pos bytes of rd.input have been
\* delivered; rd.done is the last return value of readData and rd.end the
\* number of bytes of rd.input it had gone past when it returned true;
\* rd.cut tells that some chunk ended inside a sentinel.
Pieces ==
  {<<97, 9, 98, 10>>, <<98>>, <<10>>, <<69, 79, 83, 10>>, <<69, 79>>, <<83, 10>>}

RECURSIVE Inputs(_)
Inputs(n) ==
  IF n = 0 THEN {<<>>}
  ELSE LET shorter == Inputs(n - 1)
       IN shorter \cup {s \o p : s \in shorter, p \in Pieces}

ReadInit ==
  /\ _tasks = <<>>
  /\ _eosSample = setEOSSample(<<"E", "O", "S", "\\", "n">>)
  /\ _eosObject = JsStr(<<"E", "O", "S">>)
  /\ ops = <<>>
  /\ log = <<>>
  /\ stdout = <<>>
  /\ proc = [state |-> "running", signalled |-> FALSE, code |-> Null]
  /\ fault = FALSE
  /\ pipe = [written |-> 0, delivered |-> 0]
  /\ \E input \in Inputs(MaxPieces), expect \in 1 .. MaxExpect :
       rd = [task |-> MeCabReadTask(1, expect, _eosSample, _eosObject),
             input |-> input, pos |-> 0, done |-> FALSE, end |-> 0, cut |-> FALSE]

Feed(k) ==
  /\ ~rd.done
  /\ k \in 1 .. (Len(rd.input) - rd.pos)
  /\ LET held == IF rd.task._lastBuffer = Null THEN 0
                 ELSE Len(rd.task._lastBuffer[1])
         r == readData(rd.task, SubSeq(rd.input, rd.pos + 1, rd.pos + k))
         inside == \E i \in 0 .. Len(rd.input) :
                     /\ IndexOf(rd.input, rd.task._eosSample, i) = i
                     /\ i < rd.pos + k
                     /\ rd.pos + k < i + Len(rd.task._eosSample)
     IN rd' = [rd EXCEPT !.task = r.task, !.pos = @ + k, !.done = r.done,
                         !.end = IF r.done THEN rd.pos - held + r.used ELSE 0,
                         !.cut = @ \/ inside]
  /\ UNCHANGED <<_tasks, _eosSample, _eosObject, ops, log, stdout, proc, fault, pipe>>

ReadNext == \E k \in 1 .. Len(rd.input) : Feed(k)

ReadSpec == ReadInit /\ [][ReadNext]_vars

\* ------------------------------------------------- sizing one request
\* The texts of at most n bytes over a letter and the two line break
\* bytes.
RECURSIVE Texts(_)
Texts(n) ==
  IF n = 0 THEN {<<>>}
  ELSE LET shorter == Texts(n - 1)
       IN shorter \cup {s \o <<b>> : s \in shorter, b \in {97, LF, CR}}

\* One analyze() call on a fresh MeCab with any such text.
SizeNext == \E payload \in Texts(MaxLen) : Len(ops) = 0 /\ Analyze(payload)

SizeSpec == Init /\ [][SizeNext]_vars

\* ------------------------------------------------------ reading the log
\* The position in the log of the event ev of call id, 0 if there is none.
At(ev, id) ==
  LET hits == {i \in 1 .. Len(log) : log[i].ev = ev /\ log[i].id = id}
  IN IF hits = {} THEN 0 ELSE CHOOSE i \in hits : \A j \in hits : i <= j

\* The position at which the promise of call id was settled, 0 if pending.
SettledAt(id) ==
  IF At("resolved", id) > 0 THEN At("resolved", id) ELSE At("rejected", id)

Ids == 1 .. Len(ops)
Reads == {id \in Ids : ops[id].type = "read"}
Kills == {id \in Ids : ops[id].type = "kill"}
Settled(id) == ops[id].state # "pending"
Queued == {_tasks[i].id : i \in 1 .. Len(_tasks)}

\* ---------------------------------------------------------------- C1
\* C1: writes to the child's stdin are serialized by the queue: the payload
\* of a request is written only after every request submitted before it
\* was settled, and at every state no task behind the head of _tasks has
\* had its side effect (stdin write or kill signal) issued.
C1_WritesSerialized ==
  /\ \A id \in Reads : \A before \in Reads :
       (before < id /\ At("write", id) > 0)
         => (SettledAt(before) > 0 /\ SettledAt(before) < At("write", id))
  /\ \A i \in 2 .. Len(_tasks) :
       At("write", _tasks[i].id) = 0 /\ At("signal", _tasks[i].id) = 0

\* ---------------------------------------------------------------- C2
\* C2: the futures of the analyze() requests are settled in submission
\* order: whenever a request is settled, every request submitted before
\* it was settled earlier.
C2_SettledInSubmissionOrder ==
  \A id \in Reads : \A before \in Reads :
    (before < id /\ Settled(id))
      => (SettledAt(before) > 0 /\ SettledAt(before) < SettledAt(id))

\* Two requests were both queued, and both were answered by the child.
C2_Witness ==
  \E a \in Reads : \E b \in Reads :
    /\ a < b
    /\ At("call", b) < SettledAt(a)
    /\ ops[a].state = "resolved"
    /\ ops[b].state = "resolved"

\* ---------------------------------------------------------------- C3
\* C3: a kill() that is not forced issues its signal only after every task
\* submitted before it has been settled.
C3_KillAfterEarlierTasks ==
  \A id \in Kills :
    (~ops[id].force /\ At("signal", id) > 0)
      => \A before \in Ids :
           before < id
             => (SettledAt(before) > 0 /\ SettledAt(before) < At("signal", id))

\* A kill() was called while a request was pending, and its signal went
\* out once that request was answered.
C3_Witness ==
  \E id \in Kills : \E before \in Reads :
    /\ ~ops[id].force
    /\ before < id
    /\ At("call", id) < SettledAt(before)
    /\ ops[before].state = "resolved"
    /\ At("signal", id) > SettledAt(before)

\* ---------------------------------------------------------------- C4
\* The number of boundary markers in a result list.
Markers(list, object) == Cardinality({i \in 1 .. Len(list) : list[i] = object})

\* The number of occurrences of pat in buf, counted from the left without
\* overlap.
RECURSIVE Occurrences(_, _)
Occurrences(buf, pat) ==
  IF Len(buf) < Len(pat) THEN 0
  ELSE IF SubSeq(buf, 1, Len(pat)) = pat
       THEN 1 + Occurrences(SubSeq(buf, Len(pat) + 1, Len(buf)), pat)
       ELSE Occurrences(Tail(buf), pat)

RecordAB == JsArr(<<(<<"a">>), (<<"b">>)>>)
OutputTwoSentences == <<97, 9, 98, 10, 69, 79, 83, 10, 97, 9, 98, 10, 69, 79, 83, 10>>
OutputSentinelOnly == <<69, 79, 83, 10>>

\* C4 as claimed: every sentinel found by a read task, the completing one
\* included, appends one boundary marker, so a read with expected count N
\* resolves with N markers; two sentences of output with expected count 2
\* resolve to [record, EOS, record, EOS], and the sentinel alone with
\* expected count 1 resolves to [EOS].
C4_MarkerPerSentinel ==
  rd.done =>
    /\ Markers(rd.task._result, rd.task._eosObject) = rd.task._maxEos
    /\ (rd.input = OutputTwoSentences /\ rd.task._maxEos = 2)
         => rd.task._result = <<RecordAB, rd.task._eosObject, RecordAB, rd.task._eosObject>>
    /\ (rd.input = OutputSentinelOnly /\ rd.task._maxEos = 1)
         => rd.task._result = <<rd.task._eosObject>>

\* C4 amended: every sentinel found by a read task except the completing
\* one appends one boundary marker, so a read with expected count N
\* resolves with N - 1 markers; two sentences of output with expected
\* count 2 resolve to [record, EOS, record], and the sentinel alone with
\* expected count 1 resolves to [].
C4_MarkerPerSentinelButLast ==
  LET seen == Occurrences(SubSeq(rd.input, 1, IF rd.done THEN rd.end ELSE rd.pos),
                          rd.task._eosSample)
      markers == Markers(rd.task._result, rd.task._eosObject)
  IN /\ ~rd.done => markers = seen
     /\ rd.done =>
          /\ seen = rd.task._maxEos
          /\ markers = rd.task._maxEos - 1
          /\ (rd.input = OutputTwoSentences /\ rd.task._maxEos = 2)
               => rd.task._result = <<RecordAB, rd.task._eosObject, RecordAB>>
          /\ (rd.input = OutputSentinelOnly /\ rd.task._maxEos = 1)
               => rd.task._result = <<>>

\* The two-sentence output was read to completion with expected count 2.
C4_Witness ==
  /\ rd.done
  /\ rd.input = OutputTwoSentences
  /\ rd.task._maxEos = 2
  /\ rd.task._result = <<RecordAB, rd.task._eosObject, RecordAB>>

\* ---------------------------------------------------------------- C5
\* The lines of a text that ends with a line feed.
RECURSIVE LinesOf(_)
LinesOf(text) ==
  IF text = <<>> THEN <<>>
  ELSE LET i == CHOOSE i \in 1 .. Len(text) :
                  text[i] = LF /\ \A j \in 1 .. (i - 1) : text[j] # LF
       IN <<SubSeq(text, 1, i - 1)>> \o LinesOf(SubSeq(text, i + 1, Len(text)))

\* The result the README documents for the sentences of a text: the
\* records of each sentence, with one marker between consecutive
\* sentences and none after the last.  The child of the model answers a
\* sentence that is not empty with one morpheme, the sentence itself.
RECURSIVE Documented(_, _)
Documented(lines, object) ==
  LET records == IF Head(lines) = <<>> THEN <<>>
                 ELSE <<JsArr(<<[i \in 1 .. Len(Head(lines)) |-> ByteChar(Head(lines)[i])]>>)>>
  IN IF Len(lines) = 1 THEN records
     ELSE records \o <<object>> \o Documented(Tail(lines), object)

LineFeeds(payload) == Cardinality({i \in 1 .. Len(payload) : payload[i] = LF})

Whole ==
  readData(MeCabReadTask(1, rd.task._maxEos, rd.task._eosSample, rd.task._eosObject),
           rd.input)

\* C6: feeding an output byte string to readData in consecutive chunks,
\* however it is split, gives the result list of feeding it as a single
\* chunk, and completes on the same byte.
C6_ChunkingIndependent ==
  /\ rd.done =>
       /\ Whole.done
       /\ rd.task._result = Whole.task._result
       /\ rd.end = Whole.used
  /\ (Whole.done /\ rd.pos >= Whole.used) => rd.done
  /\ (~Whole.done /\ rd.pos = Len(rd.input)) =>
       /\ ~rd.done
       /\ rd.task._result = Whole.task._result
       /\ rd.task._eosCount = Whole.task._eosCount
       /\ rd.task._lastBuffer = Whole.task._lastBuffer

\* A read completed on its second sentinel after a chunk had ended inside
\* a sentinel.
C6_Witness ==
  /\ rd.done
  /\ rd.cut
  /\ rd.task._maxEos = 2
  /\ Len(rd.task._result) = 3

\* An exit code that is a number other than 0; a clean exit has code 0 or
\* none.
NonZero(code) == code \in {Some(n) : n \in 1 .. 255}
Clean(code) == code = Null \/ code = Some(0)

\* ---------------------------------------------------------------- C7
\* C7 as claimed: once a kill task's start() has called process.kill, the
\* kill future is resolved and the task has left the queue, without any
\* close event.
C7_KillCompletesOnSignal ==
  \A id \in Kills :
    At("signal", id) > 0 => (ops[id].state = "resolved" /\ id \notin Queued)

\* C7 amended: issuing the signal does not complete a kill operation:
\* while the child is running, a kill task whose signal went out stays
\* at the head of the queue with its future unresolved, and a kill future
\* is resolved only by the close handler, on a clean exit.
C7_KillResolvedByClose ==
  \A id \in Kills :
    /\ ops[id].state = "resolved"
         => (proc.state = "closed" /\ Clean(proc.code) /\ ops[id].value = Killed)
    /\ (At("signal", id) > 0 /\ ops[id].state = "pending")
         => (_tasks # <<>> /\ _tasks[1].id = id)

\* The signal of a kill went out and the child then closed cleanly: the
\* future is resolved, and the task is still the head of the queue.
C7_Witness ==
  \E id \in Kills :
    /\ At("signal", id) > 0
    /\ At("signal", id) < At("resolved", id)
    /\ proc.state = "closed"
    /\ _tasks # <<>>
    /\ _tasks[1].id = id

\* ---------------------------------------------------------------- C8
\* A step in which kill(true) is called.
ForcedKillStep ==
  /\ Len(ops') = Len(ops) + 1
  /\ ops'[Len(ops')].type = "kill"
  /\ ops'[Len(ops')].force

\* C8: kill(true) rejects every task of the queue, in whatever position,
\* and empties the queue before it issues the kill signal, and all these
\* rejections precede the resolution of the kill future.
C8_ForcedKillRejectsAll ==
  /\ [][ForcedKillStep =>
          LET id == Len(ops')
          IN /\ \A i \in 1 .. Len(_tasks) :
                  /\ ops'[_tasks[i].id].state # "pending"
                  /\ ops[_tasks[i].id].state = "pending"
                       => /\ ops'[_tasks[i].id].state = "rejected"
                          /\ ops'[_tasks[i].id].value = Interrupted
             /\ Len(_tasks') = 1
             /\ _tasks'[1].id = id
             /\ log'[Len(log')] = [ev |-> "signal", id |-> id]
             /\ ops'[id].state = "pending"]_vars
  /\ [](\A id \in Kills :
         ops[id].force =>
           \A before \in Ids :
             before < id =>
               /\ SettledAt(before) > 0
               /\ SettledAt(before) < At("signal", id)
               /\ Settled(id) => SettledAt(before) < SettledAt(id))

\* kill(true) was called with two requests queued; both were rejected as
\* interrupted, and the kill future was resolved afterwards.
C8_Witness ==
  \E id \in Kills :
    /\ ops[id].force
    /\ id = 3
    /\ \A before \in {1, 2} :
         /\ ops[before].type = "read"
         /\ ops[before].value = Interrupted
         /\ At("call", id) < At("rejected", before)
    /\ ops[id].state = "resolved"

\* ---------------------------------------------------------------- C9
\* A step in which the close handler runs.
CloseStep == proc.state = "running" /\ proc'.state = "closed"

\* C9: on close with a non-zero exit code, every task in the queue, read
\* or kill, is rejected with the crash error, and none is resolved.
C9_CrashRejectsAll ==
  [][(CloseStep /\ NonZero(proc'.code)) =>
       \A i \in 1 .. Len(_tasks) :
         /\ ops'[_tasks[i].id].state = "rejected"
         /\ ops'[_tasks[i].id].value = Crushed(proc'.code[1])]_vars

\* The child exited with code 1 with a read task and a kill task in the
\* queue, and both are rejected.
C9_Witness ==
  /\ proc.state = "closed"
  /\ proc.code = Some(1)
  /\ \E i \in 1 .. Len(_tasks) : \E j \in 1 .. Len(_tasks) :
       /\ _tasks[i].type = "read"
       /\ _tasks[j].type = "kill"
       /\ ops[_tasks[i].id].value = Crushed(1)
       /\ ops[_tasks[j].id].value = Crushed(1)

\* --------------------------------------------------------------- C10
\* C10: on close with a clean exit (code 0 or none), every read task in
\* the queue is rejected with the "killed" error and every kill task in
\* the queue is resolved with the "killed" message.
C10_CleanExitSettlesAll ==
  [][(CloseStep /\ Clean(proc'.code)) =>
       \A i \in 1 .. Len(_tasks) :
         /\ ops'[_tasks[i].id].value = Killed
         /\ ops'[_tasks[i].id].state =
              IF _tasks[i].type = "read" THEN "rejected" ELSE "resolved"]_vars

\* The child exited with code 0 with a read task and a kill task in the
\* queue; the read is rejected and the kill resolved.
C10_Witness ==
  /\ proc.state = "closed"
  /\ proc.code = Some(0)
  /\ \E i \in 1 .. Len(_tasks) : \E j \in 1 .. Len(_tasks) :
       /\ _tasks[i].type = "read"
       /\ _tasks[j].type = "kill"
       /\ ops[_tasks[i].id].state = "rejected"
       /\ ops[_tasks[i].id].value = Killed
       /\ ops[_tasks[j].id].state = "resolved"
       /\ ops[_tasks[j].id].value = Killed

\* --------------------------------------------------------------- C11
\* The kill tasks that the close handler has settled: they are still in
\* the queue, which the handler does not clear.
ClosedKills ==
  {id \in Kills : id \in Queued /\ Settled(id)}

\* The read tasks that the close handler has settled.
ClosedReads ==
  {id \in Reads : id \in Queued /\ Settled(id)}

\* C11 as stated: after an exit with a non-zero code, the read tasks that
\* were pending are rejected while the kill tasks that were pending are
\* resolved.
C11_CrashResolvesKills ==
  (proc.state = "closed" /\ NonZero(proc.code)) =>
    /\ \A id \in ClosedReads : ops[id].state = "rejected"
    /\ \A id \in ClosedKills : ops[id].state = "resolved"

\* C11: after an exit with a non-zero code, no kill future has been
\* resolved by the close handler: every kill task it settled is rejected
\* with the crash error, just as every read task it settled.
C11_CrashRejectsKills ==
  (proc.state = "closed" /\ NonZero(proc.code)) =>
    /\ \A id \in ClosedReads :
         ops[id].state = "rejected" /\ ops[id].value = Crushed(proc.code[1])
    /\ \A id \in ClosedKills :
         ops[id].state = "rejected" /\ ops[id].value = Crushed(proc.code[1])

\* The child exited with code 1 while a kill task was pending at the head
\* of the queue with its signal issued, and the kill future is rejected.
C11_Witness ==
  /\ proc.state = "closed"
  /\ proc.code = Some(1)
  /\ proc.signalled
  /\ _tasks # <<>>
  /\ _tasks[1].type = "kill"
  /\ ops[_tasks[1].id].state = "rejected"
  /\ ops[_tasks[1].id].value = Crushed(1)

\* --------------------------------------------------------------- C12
\* A step of the 'error' handler: no operation is submitted, no output is
\* delivered and the process does not close.
ErrorStep ==
  /\ Len(ops') = Len(ops)
  /\ stdout' = stdout
  /\ proc' = proc

\* C12: when the 'error' event fires, every task of the queue that was
\* pending, read or kill, started or not, is rejected with one and the
\* same error value, none is left pending, and the queue is empty
\* afterwards.
C12_ErrorRejectsAll ==
  [][ErrorStep =>
       /\ _tasks' = <<>>
       /\ \E error \in Errors :
            \A i \in 1 .. Len(_tasks) :
              LET id == _tasks[i].id
              IN /\ ops'[id].state # "pending"
                 /\ ops[id].state = "pending" =>
                      /\ ops'[id].state = "rejected"
                      /\ ops'[id].value = error]_vars

\* The 'error' event fired with a read task at the head and a kill task
\* behind it, not started: both are rejected with the error and the queue
\* is empty.
C12_Witness ==
  /\ _tasks = <<>>
  /\ \E i \in Reads : \E j \in Kills :
       /\ i < j
       /\ At("signal", j) = 0
       /\ ops[i].state = "rejected"
       /\ ops[j].state = "rejected"
       /\ ops[i].value = PipeError
       /\ ops[j].value = PipeError

\* --------------------------------------------------------------- C13
\* C13: the future of every kill() call is eventually settled, whether
\* the call is forced or not and whether the process is running, closed
\* or crashed when it is made.
C13_KillEventuallySettles ==
  \A id \in 1 .. MaxOps :
    [](id \in Kills => <>(id \in Kills /\ Settled(id)))

\* --------------------------------------------------------------- C14
\* The positions of the line break bytes of a text.
Terminators(text) == {i \in 1 .. Len(text) : text[i] \in {LF, CR}}

\* The convention shown by the first terminator of a text that has one:
\* LF, CR followed by LF, or CR alone.
Convention(text) ==
  LET i == CHOOSE i \in Terminators(text) : \A j \in Terminators(text) : i <= j
  IN IF text[i] = LF THEN <<LF>>
     ELSE IF i < Len(text) /\ text[i + 1] = LF THEN <<CR, LF>>
     ELSE <<CR>>

\* The number of places of a text at which pat occurs; occurrences of a
\* line break convention cannot overlap.
Places(text, pat) ==
  Cardinality({i \in 1 .. (Len(text) + 1 - Len(pat)) :
                 SubSeq(text, i, i + Len(pat) - 1) = pat})

\* C14: the line break count of a payload is 0 when it holds no LF and no
\* CR, otherwise the number of occurrences in the whole payload of the
\* convention its first terminator shows, and the read task queued for the
\* payload expects that count plus one sentinels, at least one.
C14_RequestSizing ==
  _tasks # <<>> =>
    LET payload == ops[_tasks[1].id].payload
        count == _countSentences(payload)
    IN /\ count = IF Terminators(payload) = {} THEN 0
                  ELSE Places(payload, Convention(payload))
       /\ _tasks[1]._maxEos = count + 1
       /\ _tasks[1]._maxEos >= 1

\* A request is sized whose first terminator is CR LF and which holds a
\* lone CR and a lone LF as well: it expects three sentinels.
C14_Witness ==
  /\ _tasks # <<>>
  /\ ops[_tasks[1].id].payload = <<CR, LF, CR, CR, LF>>
  /\ _tasks[1]._maxEos = 3

\* --------------------------------------------------------------- C15
\* C15: in every state in which a 'data' event can be delivered, that is,
\* the child runs and has written output that was not delivered yet, the
\* queue is not empty and its head is a read task.
C15_DataRoutedToRead ==
  (proc.state = "running" /\ stdout # <<>>) =>
    /\ _tasks # <<>>
    /\ _tasks[1].type = "read"

\* --------------------------------------------------------------- C16
\* A text split on the line terminator: the lines before each terminator
\* and the text after the last one.
RECURSIVE SplitLines(_)
SplitLines(text) ==
  IF \A i \in 1 .. Len(text) : text[i] # "\n" THEN <<text>>
  ELSE LET i == CHOOSE i \in 1 .. Len(text) :
                  text[i] = "\n" /\ \A j \in 1 .. (i - 1) : text[j] # "\n"
       IN <<SubSeq(text, 1, i - 1)>> \o SplitLines(SubSeq(text, i + 1, Len(text)))

\* The records of a segment as claimed: one per line, in line order, a
\* final empty line left out.
SegmentRecords(text) ==
  LET split == SplitLines(text)
      lines == IF split[Len(split)] = <<>> THEN SubSeq(split, 1, Len(split) - 1)
               ELSE split
  IN [i \in 1 .. Len(lines) |-> lineParser(lines[i])]

\* The result list of n segments of output, each ended by the sentinel.
RECURSIVE SegmentsResult(_, _, _, _)
SegmentsResult(output, sample, object, n) ==
  LET index == IndexOf(output, sample, 0)
      records == SegmentRecords(ToStringUtf8(output, 0, index))
  IN IF n = 1 THEN records
     ELSE records \o <<object>>
            \o SegmentsResult(Slice(output, index + Len(sample), Len(output)),
                              sample, object, n - 1)

\* C16: a read task resolves with the records of its segments, where the
\* records of a segment are those of all its lines in order, only a final
\* empty line being dropped: a last line that is not empty and not
\* followed by the line terminator yields a record too.
C16_SegmentDecoding ==
  rd.done =>
    rd.task._result =
      SegmentsResult(rd.input, rd.task._eosSample, rd.task._eosObject, rd.task._maxEos)

\* --------------------------------------------------------------- C17
\* C17: a task leaves the queue only settled: in every step, the future of
\* each task that was in the queue and is no longer in it is resolved or
\* rejected when the step ends.
C17_NoTaskDropped ==
  [][\A id \in Queued : id \notin Queued' => ops'[id].state # "pending"]_vars

\* A read task left the queue on completion, resolved, and a later task
\* left it by a forced kill, rejected as interrupted.
C17_Witness ==
  \E i \in Reads : \E j \in Ids :
    /\ i < j
    /\ i \notin Queued
    /\ j \notin Queued
    /\ ops[i].state = "resolved"
    /\ ops[j].state = "rejected"
    /\ ops[j].value = Interrupted

\* --------------------------------------------------------------- C18
\* The output the child has written so far: its answers to the payloads
\* it was written, in order.
RECURSIVE Stream(_)
Stream(n) ==
  IF n = 0 THEN <<>>
  ELSE Stream(n - 1) \o
         IF ops[n].type = "read" /\ ops[n].answer.to > ops[n].answer.from
         THEN MecabAnswer(ops[n].payload \o <<LF>>) ELSE <<>>

\* The bytes the read task of call id went through, read in one piece by a
\* task set up with the sentinel and the EOS object configured when the
\* call was made.
AsConfigured(id) ==
  readData(MeCabReadTask(id, _countSentences(ops[id].payload) + 1,
                         ops[id].cfg.sample, ops[id].cfg.object),
           SubSeq(Stream(Len(ops)), ops[id].fed.from + 1, ops[id].fed.to))

\* A step in which setEOSSample or setEOSObject changes the configuration.
SetterStep == _eosSample' # _eosSample \/ _eosObject' # _eosObject

\* C18: a read task holds, as long as it is in the queue, the sentinel and
\* the EOS object configured when analyze() created it; a call of
\* setEOSSample or setEOSObject changes no task of the queue and settles
\* no promise; and a read resolves with the result that framing its bytes
\* by the sentinel of its creation gives, with the EOS object of its
\* creation as marker.  A call made after the setter gets the new values.
C18_ConfigFixedPerTask ==
  /\ [](\A i \in 1 .. Len(_tasks) :
          _tasks[i].type = "read" =>
            /\ _tasks[i]._eosSample = ops[_tasks[i].id].cfg.sample
            /\ _tasks[i]._eosObject = ops[_tasks[i].id].cfg.object)
  /\ [](\A id \in Reads :
          ops[id].state = "resolved" =>
            /\ AsConfigured(id).done
            /\ AsConfigured(id).task._result = ops[id].value.list
            /\ Markers(ops[id].value.list, ops[id].cfg.object)
                 = _countSentences(ops[id].payload))
  /\ [][SetterStep =>
          /\ _tasks' = _tasks
          /\ \A id \in Ids : /\ ops'[id].state = ops[id].state
                             /\ ops'[id].value = ops[id].value
                             /\ ops'[id].cfg = ops[id].cfg]_vars

\* Both setters were called while the read task of a two-sentence request
\* was in the queue, and it resolved with the marker of its creation, which
\* is not the EOS object now configured; the call made after the setters
\* holds the new sentinel.
C18_Witness ==
  /\ Len(ops) = 2
  /\ ops[1].reset
  /\ ops[1].state = "resolved"
  /\ ops[1].cfg.object # _eosObject
  /\ ops[1].cfg.sample # _eosSample
  /\ ops[1].value.list = <<JsArr(<<(<<"b">>)>>), ops[1].cfg.object, JsArr(<<(<<"b">>)>>)>>
  /\ _tasks # <<>>
  /\ _tasks[1].id = 2
  /\ _tasks[1]._eosSample = <<LF>>
  /\ _tasks[1]._eosSample # ops[1].cfg.sample

\* --------------------------------------------------------------- C19
\* The result of the read task of call id when it is given exactly the
\* child's answer to its payload.
Aligned(id) ==
  readData(MeCabReadTask(id, _countSentences(ops[id].payload) + 1,
                         ops[id].cfg.sample, ops[id].cfg.object),
           MecabAnswer(ops[id].payload \o <<LF>>)).task._result

\* Only analyze() was called, the child runs and has answered every
\* payload, and no error was emitted.
OnlyReads ==
  /\ Kills = {}
  /\ proc.state = "running"
  /\ \A id \in Reads : ops[id].state # "rejected"

\* C19: with several analyze() requests queued and the child answering
\* each, however the output is cut into chunks, a request that resolves
\* has the result it gets when the chunks end where its answer ends, every
\* chunk finds a read task to go to, and once the whole output has been
\* delivered every request has resolved.
C19_NoByteLost ==
  OnlyReads =>
    /\ \A id \in Reads :
         ops[id].state = "resolved" => ops[id].value.list = Aligned(id)
    /\ ~fault
    /\ stdout = <<>> => \A id \in Reads : ops[id].state = "resolved"

\* --------------------------------------------------------------- C20
\* C20: between handlers and calls the queue holds only tasks whose future
\* is pending; a settled task is not in the queue, so the head is never a
\* settled task behind which later tasks wait without being started.
C20_QueueHoldsPending ==
  \A id \in Queued : ops[id].state = "pending"

====
